---- MODULE Spec2Model ----
(***************************************************************************)
(* A model of the NETCONF client session: the handshake (NewSession,       *)
(* SendHello), the receive loop (listen), the RPC paths (ExecRPC,          *)
(* AsyncRPC, SyncRPC), the notification subscription                       *)
(* (CreateNotificationStream) and Close.                                   *)
(*                                                                         *)
(* Goroutines are modelled as processes with a program counter: the        *)
(* callers of the session API (Callers) and the receive loops started by   *)
(* listen (Loops).  One step of a process is one call that touches shared  *)
(* state (a Transport call, a Dispatcher call, a read or write of a        *)
(* session field).  The Transport, the Dispatcher and the message          *)
(* catalogue are collaborators whose code is not part of the session       *)
(* files; they are modelled from their documented contract.                *)
(***************************************************************************)
EXTENDS Integers, Sequences, FiniteSets, TLC

\* ------------------------------------------------------------------ bounds
NumCallers == 2
MaxIds == 2
MaxLoops == 2
MaxCaps == 2
MaxOps == 2

Callers == 1..NumCallers
Loops == 1..MaxLoops

\* Message ids "100", "101", ... of the operations the callers build.
MsgIds == {ToString(99 + i) : i \in 1..MaxIds}

\* message.NetconfNotificationStreamHandler: the well-known handler key.
NetconfNotificationStreamHandler == "notification-stream-handler"

Keys == MsgIds \cup {NetconfNotificationStreamHandler}

\* The subscription ids a server may put in a notification: any string.
SubscriptionIDs == {NetconfNotificationStreamHandler, "100", "7"}

\* ----------------------------------------------------------------- strings
\* A string is a sequence of one-character strings.
\* message.NetconfVersion11 as the handshake matches it: the token "1.1".
NetconfVersion11 == <<"1", ".", "1">>

\* strings.Contains(s, sub)
Contains(s, sub) ==
    \E i \in 1..(Len(s) - Len(sub) + 1) : SubSeq(s, i, i + Len(sub) - 1) = sub

\* The capability strings a server Hello may carry.
CapStrings ==
    { <<"b", ":", "1", ".", "0">>,
      <<"b", ":", "1", ".", "1">>,
      <<"1", ".", "1", "x">>,
      <<"1", "1">>,
      <<"1", ".">>,
      <<"1", ".", ".", "1">> }

RECURSIVE SeqsUpTo(_, _)
SeqsUpTo(S, n) ==
    IF n = 0 THEN {<<>>}
    ELSE LET shorter == SeqsUpTo(S, n - 1)
         IN  shorter \cup {Append(q, x) : q \in shorter, x \in S}

\* The capability lists of the server Hello: every list for the handshake
\* specification, two representative ones for the full specification.
AllHellos == SeqsUpTo(CapStrings, MaxCaps)
FewHellos ==
    { << <<"b", ":", "1", ".", "0">> >>,
      << <<"b", ":", "1", ".", "0">>, <<"b", ":", "1", ".", "1">> >> }

\* --------------------------------------------------------------- callbacks
\* A consumer is identified by the caller that built it, the key it was
\* built for and whether it is SyncRPC's internal closure.
NoCb == [by |-> 0, for |-> "", sync |-> FALSE]
Cb(c, k, s) == [by |-> c, for |-> k, sync |-> s]

\* ---------------------------------------------------------------- payloads
\* An inbound payload: rm/nm say whether the text contains "<rpc-reply" /
\* "<notification", form says what it decodes as, key is its message-id or
\* subscription id, errs whether the reply carries <rpc-error> elements.
Payloads ==
    {[rm |-> TRUE, nm |-> FALSE, form |-> "reply", key |-> k, errs |-> e] :
        k \in MsgIds, e \in BOOLEAN}
    \cup
    {[rm |-> FALSE, nm |-> TRUE, form |-> "notif", key |-> k, errs |-> FALSE] :
        k \in SubscriptionIDs}
    \cup
    {[rm |-> r, nm |-> n, form |-> "bad", key |-> "", errs |-> FALSE] :
        r \in BOOLEAN, n \in BOOLEAN}


\* ------------------------------------------------------------------- state
VARIABLES
    constructed,    \* NewSession has returned
    helloErr,       \* the error ReceiveHello returned to NewSession was not nil
    SessionID,      \* Session.SessionID
    Capabilities,   \* Session.Capabilities: the peer's capability list
    IsClosed,       \* Session.IsClosed
    IsNotificationStreamCreated,    \* Session.IsNotificationStreamCreated
    Listener,       \* Session.Listener: the Dispatcher's registry, key -> consumer
    version,        \* the Transport's framing version
    tClosed,        \* the Transport has been closed
    pc,             \* pc[c]: where caller c is
    op,             \* op[c]: the operation caller c is in
    opId,           \* op[c]'s message id
    inCreate,       \* caller c's SyncRPC runs inside CreateNotificationStream
    replyReceived,  \* SyncRPC's local replyReceived of caller c
    replyErrs,      \* SyncRPC's local reply of caller c: whether it carries errors
    ret,            \* what caller c's operation returned
    closedAtCall,   \* Close had closed the session when caller c's operation was invoked
    lpc,            \* lpc[l]: where receive loop l is
    lastLoop,       \* what the step just taken dispatched or dropped, if it did
    held,           \* keys registered at the last decode failure, untouched since
    wire,           \* the call of Transport.Send the step just taken made, if any
    opsLeft,        \* operations the callers may still invoke
    crashed         \* the process died of a panic

callerVars == <<pc, op, opId, inCreate, replyReceived, replyErrs, ret, closedAtCall>>
loopVars == <<lpc, held>>
sessVars == <<constructed, helloErr, SessionID, Capabilities, IsClosed,
              IsNotificationStreamCreated, Listener, version, tClosed>>
vars == <<sessVars, callerVars, loopVars, lastLoop, wire, opsLeft, crashed>>

NoLoop == [what |-> "none", id |-> "", key |-> "", kind |-> 0, cbs |-> <<>>,
           late |-> FALSE]
NoWire == [what |-> "none", by |-> 0, ver |-> "", afterClose |-> FALSE]

Init ==
    /\ constructed = FALSE
    /\ helloErr = FALSE
    /\ SessionID = 0
    /\ Capabilities = <<>>
    /\ IsClosed = FALSE
    /\ IsNotificationStreamCreated = FALSE
    /\ Listener = [k \in Keys |-> NoCb]
    /\ version = "v1.0"
    /\ tClosed = FALSE
    /\ pc = [c \in Callers |-> "idle"]
    /\ op = [c \in Callers |-> "none"]
    /\ opId = [c \in Callers |-> ""]
    /\ inCreate = [c \in Callers |-> FALSE]
    /\ replyReceived = [c \in Callers |-> FALSE]
    /\ replyErrs = [c \in Callers |-> FALSE]
    /\ ret = [c \in Callers |-> "none"]
    /\ closedAtCall = [c \in Callers |-> FALSE]
    /\ lpc = [l \in Loops |-> "off"]
    /\ lastLoop = NoLoop
    /\ held = {}
    /\ wire = NoWire
    /\ opsLeft = MaxOps
    /\ crashed = FALSE


\* --------------------------------------------------------------- Transport
\* Transport.Send: the call is recorded in wire, with the framing version it
\* is sent under; it may fail, and fails on a closed transport.
SendResults == IF tClosed THEN {FALSE} ELSE BOOLEAN
TransportSend(c, what) ==
    /\ wire' = [what |-> what, by |-> c, ver |-> version,
                afterClose |-> closedAtCall[c]]
    /\ lastLoop' = NoLoop
\* A step that neither calls Transport.Send nor processes a payload.
NoSend == wire' = NoWire
Quiet == wire' = NoWire /\ lastLoop' = NoLoop

\* Transport.Receive: blocks for the next inbound payload, or fails; on a
\* closed transport every call fails.  What the payload holds is the
\* server's choice and is drawn where the payload is first read.
ReceiveResults == IF tClosed THEN {FALSE} ELSE BOOLEAN

\* -------------------------------------------------------------- Dispatcher
Registered(k) == k \in Keys /\ Listener[k] # NoCb
\* Dispatcher.Register: last writer wins.
Register(L, k, cb) == [L EXCEPT ![k] = cb]
\* Dispatcher.Remove
Remove(L, k) == IF k \in Keys THEN [L EXCEPT ![k] = NoCb] ELSE L
\* Dispatcher.Dispatch: the consumers it invokes, and the registry it leaves
\* (a registration is removed after a type-0, single-shot, event).
DispatchInvokes(k) == IF Registered(k) THEN <<Listener[k]>> ELSE <<>>
DispatchLeaves(k, kind) ==
    IF Registered(k) /\ kind = 0 THEN Remove(Listener, k) ELSE Listener

\* message.NewRPCReply / message.NewNotification succeed on what decodes.
NewRPCReplyOk(p) == p.form = "reply"
NewNotificationOk(p) == p.form = "notif"

\* ----------------------------------------------------------------- callers
Running == constructed /\ ~crashed

\* A caller invokes operation o.  Callers are interchangeable goroutines and
\* an idle one holds no state, so an operation is invoked by the first idle
\* caller.  The callers follow the session's lifecycle: SendHello completes
\* the handshake before the other operations are used; Close may come at any
\* time.  The SendHello of the handshake is not counted; every other
\* invocation, a repeated SendHello included, takes one of opsLeft.
Handshaken == \E l \in Loops : lpc[l] # "off"
HandshakeBegun == Handshaken \/ \E d \in Callers : op[d] = "SendHello"
Invoke(c, o) ==
    /\ Running
    /\ pc[c] = "idle"
    /\ \A d \in Callers : d < c => pc[d] # "idle"
    /\ IF o = "SendHello" /\ ~HandshakeBegun THEN UNCHANGED opsLeft
       ELSE /\ opsLeft > 0
            /\ opsLeft' = opsLeft - 1
            /\ o # "Close" => Handshaken
    /\ op' = [op EXCEPT ![c] = o]
    /\ closedAtCall' = [closedAtCall EXCEPT ![c] = IsClosed /\ tClosed]

At(c, o, where) == Running /\ op[c] = o /\ pc[c] = where

Goto(c, where) == pc' = [pc EXCEPT ![c] = where]
Returns(c, r) == pc' = [pc EXCEPT ![c] = "done"] /\ ret' = [ret EXCEPT ![c] = r]

\* The caller goes on to its next statement; the locals of the call are gone.
CallerReturns(c) ==
    /\ Running
    /\ pc[c] = "done"
    /\ pc' = [pc EXCEPT ![c] = "idle"]
    /\ op' = [op EXCEPT ![c] = "none"]
    /\ opId' = [opId EXCEPT ![c] = ""]
    /\ inCreate' = [inCreate EXCEPT ![c] = FALSE]
    /\ replyReceived' = [replyReceived EXCEPT ![c] = FALSE]
    /\ replyErrs' = [replyErrs EXCEPT ![c] = FALSE]
    /\ ret' = [ret EXCEPT ![c] = "none"]
    /\ closedAtCall' = [closedAtCall EXCEPT ![c] = FALSE]
    /\ Quiet
    /\ UNCHANGED <<sessVars, loopVars, opsLeft, crashed>>

\* ---------------------------------------------------------------- NewSession
\* ReceiveHello: one Receive and one decode; on failure the Hello is empty.
\* NewSession drops the error (serverHello, _ := s.ReceiveHello()) and copies
\* the Hello's fields.
ReceiveHello(hellos) ==
    /\ IsClosed' = FALSE
    /\ \E h \in hellos, outcome \in {"ok", "recv", "decode"} :
          /\ helloErr' = (outcome # "ok")
          /\ IF outcome = "ok"
             THEN SessionID' = 1 /\ Capabilities' = h
             ELSE SessionID' = 0 /\ Capabilities' = <<>>

NewSessionFrom(hellos) ==
    /\ ~constructed
    /\ ~crashed
    /\ ReceiveHello(hellos)
    /\ Listener' = [k \in Keys |-> NoCb]
    /\ constructed' = TRUE
    /\ Quiet
    /\ UNCHANGED <<IsNotificationStreamCreated, version, tClosed, callerVars,
                   loopVars, opsLeft, crashed>>

NewSession == NewSessionFrom(FewHellos)

\* ReceiveHello called on the constructed session: session.IsClosed = false,
\* then one Receive and one decode; the Hello is returned, no field is set.
ReceiveHelloCall(c) ==
    /\ Invoke(c, "ReceiveHello")
    /\ IsClosed' = FALSE
    /\ Goto(c, "hello_receive")
    /\ Quiet
    /\ UNCHANGED <<constructed, helloErr, SessionID, Capabilities,
                   IsNotificationStreamCreated, Listener, version, tClosed, opId,
                   inCreate, replyReceived, replyErrs, ret, loopVars, crashed>>

ReceiveHelloReceive(c) ==
    /\ At(c, "ReceiveHello", "hello_receive")
    /\ \E ok \in ReceiveResults, decodes \in BOOLEAN :
          Returns(c, IF ~ok THEN "recv" ELSE IF decodes THEN "hello" ELSE "decode")
    /\ Quiet
    /\ UNCHANGED <<sessVars, op, opId, inCreate, replyReceived, replyErrs,
                   closedAtCall, loopVars, opsLeft, crashed>>

ReceiveHelloAgain(c) == ReceiveHelloCall(c) \/ ReceiveHelloReceive(c)

\* ----------------------------------------------------------------- SendHello
\* Only the first capability of the peer looked at.
PeerSupports11First(caps) ==
    Len(caps) > 0 /\ Contains(caps[1], NetconfVersion11)
\* Whether some capability of the peer contains message.NetconfVersion11.
PeerSupports11(caps) ==
    \E i \in 1..Len(caps) : Contains(caps[i], NetconfVersion11)

LoopsStarted == Cardinality({l \in Loops : lpc[l] # "off"})
InSendHello == Cardinality({c \in Callers : op[c] = "SendHello" /\ pc[c] # "done"})

\* xml.Marshal of a Hello (a session id and a list of strings) has no failing
\* input, so the call goes on to Transport.Send.
SendHelloCall(c) ==
    /\ Invoke(c, "SendHello")
    /\ LoopsStarted + InSendHello < MaxLoops
    /\ Goto(c, "hello_send")
    /\ Quiet
    /\ UNCHANGED <<sessVars, opId, inCreate, replyReceived, replyErrs, ret,
                   loopVars, crashed>>

SendHelloSend(c) ==
    /\ At(c, "SendHello", "hello_send")
    /\ TransportSend(c, "hello")
    /\ \E ok \in SendResults : ret' = [ret EXCEPT ![c] = IF ok THEN "nil" ELSE "send"]
    /\ Goto(c, "hello_v10")
    /\ UNCHANGED <<sessVars, op, opId, inCreate, replyReceived, replyErrs,
                   closedAtCall, loopVars, opsLeft, crashed>>

SendHelloSetVersion10(c) ==
    /\ At(c, "SendHello", "hello_v10")
    /\ version' = "v1.0"
    /\ Goto(c, "hello_v11")
    /\ Quiet
    /\ UNCHANGED <<constructed, helloErr, SessionID, Capabilities, IsClosed,
                   IsNotificationStreamCreated, Listener, tClosed, op, opId,
                   inCreate, replyReceived, replyErrs, ret, closedAtCall,
                   loopVars, opsLeft, crashed>>

SendHelloSetVersion11(c) ==
    /\ At(c, "SendHello", "hello_v11")
    /\ version' = IF PeerSupports11(Capabilities) THEN "v1.1" ELSE version
    /\ Goto(c, "hello_listen")
    /\ Quiet
    /\ UNCHANGED <<constructed, helloErr, SessionID, Capabilities, IsClosed,
                   IsNotificationStreamCreated, Listener, tClosed, op, opId,
                   inCreate, replyReceived, replyErrs, ret, closedAtCall,
                   loopVars, opsLeft, crashed>>

\* session.listen(): a new receive loop starts; SendHello returns err.
SendHelloListen(c) ==
    /\ At(c, "SendHello", "hello_listen")
    /\ \E l \in Loops :
          /\ lpc[l] = "off"
          /\ \A m \in Loops : lpc[m] = "off" => l <= m
          /\ lpc' = [lpc EXCEPT ![l] = "recv"]
    /\ Goto(c, "done")
    /\ Quiet
    /\ UNCHANGED <<sessVars, op, opId, inCreate, replyReceived, replyErrs, ret,
                   closedAtCall, held, opsLeft, crashed>>

SendHello(c) ==
    \/ SendHelloCall(c)
    \/ SendHelloSend(c)
    \/ SendHelloSetVersion10(c)
    \/ SendHelloSetVersion11(c)
    \/ SendHelloListen(c)

\* --------------------------------------------------------------------- Close
CloseCall(c) ==
    /\ Invoke(c, "Close")
    /\ IsClosed' = TRUE
    /\ Goto(c, "close_transport")
    /\ Quiet
    /\ UNCHANGED <<constructed, helloErr, SessionID, Capabilities,
                   IsNotificationStreamCreated, Listener, version, tClosed, opId,
                   inCreate, replyReceived, replyErrs, ret, loopVars, crashed>>

CloseTransport(c) ==
    /\ At(c, "Close", "close_transport")
    /\ tClosed' = TRUE
    /\ Returns(c, "nil")
    /\ Quiet
    /\ UNCHANGED <<constructed, helloErr, SessionID, Capabilities, IsClosed,
                   IsNotificationStreamCreated, Listener, version, op, opId,
                   inCreate, replyReceived, replyErrs, closedAtCall, loopVars,
                   opsLeft, crashed>>

Close(c) == CloseCall(c) \/ CloseTransport(c)


\* ------------------------------------------------------------------- marshall
\* marshall / xml.Marshal of the caller's operation: whether it encodes is a
\* property of the operation the caller passes.
marshall(encodes) == IF encodes THEN "nil" ELSE "encode"

\* ------------------------------------------------------------------- ExecRPC
ExecRPCCall(c) ==
    /\ Invoke(c, "ExecRPC")
    /\ \E encodes \in BOOLEAN :
          IF marshall(encodes) = "nil"
          THEN Goto(c, "exec_send") /\ UNCHANGED ret
          ELSE Returns(c, "encode")
    /\ Quiet
    /\ UNCHANGED <<sessVars, opId, inCreate, replyReceived, replyErrs, loopVars,
                   crashed>>

ExecRPCSend(c) ==
    /\ At(c, "ExecRPC", "exec_send")
    /\ TransportSend(c, "rpc")
    /\ \E ok \in SendResults :
          IF ok THEN Goto(c, "exec_receive") /\ UNCHANGED ret
          ELSE Returns(c, "send")
    /\ UNCHANGED <<sessVars, op, opId, inCreate, replyReceived, replyErrs,
                   closedAtCall, loopVars, opsLeft, crashed>>

ExecRPCReceive(c) ==
    /\ At(c, "ExecRPC", "exec_receive")
    /\ \E ok \in ReceiveResults, p \in Payloads :
          Returns(c, IF ~ok THEN "recv"
                     ELSE IF ~NewRPCReplyOk(p) THEN "decode"
                     ELSE IF p.errs THEN "reply_errors" ELSE "reply")
    /\ Quiet
    /\ UNCHANGED <<sessVars, op, opId, inCreate, replyReceived, replyErrs,
                   closedAtCall, loopVars, opsLeft, crashed>>

ExecRPC(c) == ExecRPCCall(c) \/ ExecRPCSend(c) \/ ExecRPCReceive(c)

\* ------------------------------------------------------------------ AsyncRPC
\* AsyncRPC going to its Send with the callback not registered.
AsyncRPCCallSendsUnregistered(c) ==
    /\ Invoke(c, "AsyncRPC")
    /\ \E id \in MsgIds, encodes \in BOOLEAN :
          IF marshall(encodes) = "nil"
          THEN /\ opId' = [opId EXCEPT ![c] = id]
               /\ Goto(c, "async_send")
               /\ UNCHANGED ret
          ELSE /\ Returns(c, "encode")
               /\ UNCHANGED opId
    /\ Quiet
    /\ UNCHANGED <<sessVars, held, inCreate, replyReceived, replyErrs, lpc,
                   crashed>>

\* marshall, then Listener.Register(operation.GetMessageID(), callback).
AsyncRPCCall(c) ==
    /\ Invoke(c, "AsyncRPC")
    /\ \E id \in MsgIds, encodes \in BOOLEAN :
          IF marshall(encodes) = "nil"
          THEN /\ Listener' = Register(Listener, id, Cb(c, id, FALSE))
               /\ held' = held \ {id}
               /\ opId' = [opId EXCEPT ![c] = id]
               /\ Goto(c, "async_send")
               /\ UNCHANGED ret
          ELSE /\ Returns(c, "encode")
               /\ UNCHANGED <<Listener, held, opId>>
    /\ Quiet
    /\ UNCHANGED <<constructed, helloErr, SessionID, Capabilities, IsClosed,
                   IsNotificationStreamCreated, version, tClosed, inCreate,
                   replyReceived, replyErrs, lpc, crashed>>

AsyncRPCSend(c) ==
    /\ At(c, "AsyncRPC", "async_send")
    /\ TransportSend(c, "rpc")
    /\ \E ok \in SendResults : Returns(c, IF ok THEN "nil" ELSE "send")
    /\ UNCHANGED <<sessVars, op, opId, inCreate, replyReceived, replyErrs,
                   closedAtCall, loopVars, opsLeft, crashed>>

AsyncRPC(c) == AsyncRPCCall(c) \/ AsyncRPCSend(c)

\* ------------------------------------------------------------------- SyncRPC
\* SyncRPC returns r: to its caller, or into CreateNotificationStream.
SyncRPCReturns(c, r) ==
    /\ pc' = [pc EXCEPT ![c] = IF inCreate[c] THEN "create_result" ELSE "done"]
    /\ ret' = [ret EXCEPT ![c] = r]

\* marshall, the locals reply and replyReceived, and the Register of the
\* closure that sets them.
SyncRPCRegister(c, id) ==
    /\ Listener' = Register(Listener, id, Cb(c, id, TRUE))
    /\ held' = held \ {id}
    /\ opId' = [opId EXCEPT ![c] = id]
    /\ replyReceived' = [replyReceived EXCEPT ![c] = FALSE]
    /\ replyErrs' = [replyErrs EXCEPT ![c] = FALSE]
    /\ Goto(c, "sync_send")

SyncRPCCall(c) ==
    /\ Invoke(c, "SyncRPC")
    /\ \E id \in MsgIds, encodes \in BOOLEAN :
          IF marshall(encodes) = "nil"
          THEN SyncRPCRegister(c, id) /\ UNCHANGED ret
          ELSE /\ Returns(c, "encode")
               /\ UNCHANGED <<Listener, held, opId, replyReceived, replyErrs>>
    /\ Quiet
    /\ UNCHANGED <<constructed, helloErr, SessionID, Capabilities, IsClosed,
                   IsNotificationStreamCreated, version, tClosed, inCreate, lpc,
                   crashed>>

SyncRPCSend(c) ==
    /\ Running
    /\ op[c] \in {"SyncRPC", "CreateNotificationStream"}
    /\ pc[c] = "sync_send"
    /\ TransportSend(c, "rpc")
    /\ \E ok \in SendResults :
          IF ok THEN Goto(c, "sync_wait") /\ UNCHANGED ret
          ELSE SyncRPCReturns(c, "send")
    /\ UNCHANGED <<sessVars, op, opId, inCreate, replyReceived, replyErrs,
                   closedAtCall, loopVars, opsLeft, crashed>>

\* for !replyReceived: the flag and the reply are written by the receive
\* loop's goroutine with no synchronisation, so the read may still see the
\* values from before the write.
SyncRPCWait(c) ==
    /\ Running
    /\ op[c] \in {"SyncRPC", "CreateNotificationStream"}
    /\ pc[c] = "sync_wait"
    /\ \E seen \in {replyReceived[c], FALSE} :
          IF seen
          THEN \E errs \in {replyErrs[c], FALSE} :
                  SyncRPCReturns(c, IF errs THEN "reply_errors" ELSE "reply")
          ELSE Goto(c, "sync_sleep") /\ UNCHANGED ret
    /\ Quiet
    /\ UNCHANGED <<sessVars, op, opId, inCreate, replyReceived, replyErrs,
                   closedAtCall, loopVars, opsLeft, crashed>>

\* time.Sleep(100 * time.Millisecond)
SyncRPCSleep(c) ==
    /\ Running
    /\ op[c] \in {"SyncRPC", "CreateNotificationStream"}
    /\ pc[c] = "sync_sleep"
    /\ Goto(c, "sync_wait")
    /\ Quiet
    /\ UNCHANGED <<sessVars, op, opId, inCreate, replyReceived, replyErrs, ret,
                   closedAtCall, loopVars, opsLeft, crashed>>

SyncRPC(c) == SyncRPCCall(c) \/ SyncRPCSend(c) \/ SyncRPCWait(c) \/ SyncRPCSleep(c)

\* -------------------------------------------------- CreateNotificationStream
\* The check of IsNotificationStreamCreated made after the Register.
CreateNotificationStreamCallRegistersFirst(c) ==
    /\ Invoke(c, "CreateNotificationStream")
    /\ Listener' = Register(Listener, NetconfNotificationStreamHandler,
                            Cb(c, NetconfNotificationStreamHandler, FALSE))
    /\ IF IsNotificationStreamCreated
       THEN Returns(c, "conflict")
       ELSE Goto(c, "create_sync") /\ UNCHANGED ret
    /\ Quiet
    /\ UNCHANGED <<constructed, helloErr, SessionID, Capabilities, IsClosed,
                   IsNotificationStreamCreated, version, tClosed,
                   opId, inCreate, replyReceived, replyErrs, loopVars, crashed>>

\* if session.IsNotificationStreamCreated { return error }
CreateNotificationStreamCall(c) ==
    /\ Invoke(c, "CreateNotificationStream")
    /\ IF IsNotificationStreamCreated
       THEN Returns(c, "conflict")
       ELSE Goto(c, "create_register") /\ UNCHANGED ret
    /\ Quiet
    /\ UNCHANGED <<sessVars, opId, inCreate, replyReceived, replyErrs, loopVars,
                   crashed>>

\* session.Listener.Register(message.NetconfNotificationStreamHandler, callback)
CreateNotificationStreamRegister(c) ==
    /\ At(c, "CreateNotificationStream", "create_register")
    /\ Listener' = Register(Listener, NetconfNotificationStreamHandler,
                            Cb(c, NetconfNotificationStreamHandler, FALSE))
    /\ Goto(c, "create_sync")
    /\ Quiet
    /\ UNCHANGED <<constructed, helloErr, SessionID, Capabilities, IsClosed,
                   IsNotificationStreamCreated, version, tClosed, op, opId,
                   inCreate, replyReceived, replyErrs, ret, closedAtCall,
                   loopVars, opsLeft, crashed>>

\* rpc, err := session.SyncRPC(sub): the create-subscription request is a
\* struct of strings, which always encodes.
CreateNotificationStreamSyncRPC(c) ==
    /\ At(c, "CreateNotificationStream", "create_sync")
    /\ inCreate' = [inCreate EXCEPT ![c] = TRUE]
    /\ \E id \in MsgIds : SyncRPCRegister(c, id)
    /\ Quiet
    /\ UNCHANGED <<constructed, helloErr, SessionID, Capabilities, IsClosed,
                   IsNotificationStreamCreated, version, tClosed, op, ret,
                   closedAtCall, lpc, opsLeft, crashed>>

\* if err != nil || len(rpc.Errors) != 0 { return fmt.Errorf(.., rpc.Errors, err) }
\* With err != nil rpc is nil, and reading rpc.Errors for the message panics.
CreateNotificationStreamResult(c) ==
    /\ At(c, "CreateNotificationStream", "create_result")
    /\ IF ret[c] \in {"send", "encode"}
       THEN /\ crashed' = TRUE
            /\ Returns(c, "panic")
            /\ UNCHANGED IsNotificationStreamCreated
       ELSE IF ret[c] = "reply_errors"
       THEN /\ Returns(c, "create_failed")
            /\ UNCHANGED <<IsNotificationStreamCreated, crashed>>
       ELSE /\ IsNotificationStreamCreated' = TRUE
            /\ Returns(c, "nil")
            /\ UNCHANGED crashed
    /\ Quiet
    /\ UNCHANGED <<constructed, helloErr, SessionID, Capabilities, IsClosed, Listener,
                   version, tClosed, op, opId, inCreate, replyReceived, replyErrs,
                   closedAtCall, loopVars, opsLeft>>

CreateNotificationStream(c) ==
    \/ CreateNotificationStreamCall(c)
    \/ CreateNotificationStreamRegister(c)
    \/ CreateNotificationStreamSyncRPC(c)
    \/ CreateNotificationStreamResult(c)

\* ------------------------------------------------- Listener.Remove by a caller
ListenerRemove(c) ==
    /\ Invoke(c, "Remove")
    /\ \E k \in Keys :
          /\ Listener' = Remove(Listener, k)
          /\ held' = held \ {k}
    /\ Returns(c, "nil")
    /\ Quiet
    /\ UNCHANGED <<constructed, helloErr, SessionID, Capabilities, IsClosed,
                   IsNotificationStreamCreated, version, tClosed, opId, inCreate,
                   replyReceived, replyErrs, lpc, crashed>>


\* -------------------------------------------------------------------- listen
\* rawXML, err := session.Transport.Receive()
listenReceive(l) ==
    /\ Running
    /\ lpc[l] = "recv"
    /\ \E ok \in ReceiveResults :
          lpc' = [lpc EXCEPT ![l] = IF ok THEN "received" ELSE "receive_failed"]
    /\ Quiet
    /\ UNCHANGED <<sessVars, callerVars, held, opsLeft, crashed>>

\* Where the loop goes after a failed Receive: println(...); continue
AfterReceiveError == "recv"
\* A failed decode that ends the loop.
AfterDecodeErrorBreak == "exited"
\* Where the loop goes after a failed decode: println(...); continue
AfterDecodeError == "recv"

listenReceiveFailed(l) ==
    /\ Running
    /\ lpc[l] = "receive_failed"
    /\ lpc' = [lpc EXCEPT ![l] = AfterReceiveError]
    /\ Quiet
    /\ UNCHANGED <<sessVars, callerVars, held, opsLeft, crashed>>

\* A reply dispatched under the id of whichever request is outstanding.
ReplyDispatchKeyAnyOutstanding(p) ==
    IF \E k \in MsgIds : Registered(k)
    THEN CHOOSE k \in MsgIds : Registered(k)
    ELSE p.key
\* The key and the event type a reply is dispatched under:
\* session.Listener.Dispatch(rpcReply.MessageID, 0, rpcReply)
ReplyDispatchKey(p) == p.key
\* session.Listener.Dispatch(notification.SubscriptionID, 1, notification)
NotificationDispatchKey(p) == p.key
NotificationEventType == 1
\* A reply dispatched with the event type of a notification.
ReplyEventTypeDurable == NotificationEventType
ReplyEventType == 0

\* SyncRPC's closure writes the locals of the call it was built in: the call
\* of its caller that registered it and has not returned.
LiveClosure(cb) ==
    /\ cb.sync
    /\ pc[cb.by] \in {"sync_send", "sync_wait", "sync_sleep"}
    /\ opId[cb.by] = cb.for

\* Listener.Dispatch(k, kind, value) from the loop: the registered consumer
\* runs in the loop's goroutine.  SyncRPC's closure does
\* reply = *event.RPCReply(), which panics on an event that holds no reply.
listenDispatch(l, p, what, k, kind) ==
    LET cbs == DispatchInvokes(k)
    IN  /\ Listener' = DispatchLeaves(k, kind)
        /\ lastLoop' = [what |-> what, id |-> p.key, key |-> k, kind |-> kind,
                        cbs |-> cbs,
                        late |-> (cbs # <<>> /\ k \in held)]
        /\ held' = {}
        /\ IF cbs # <<>> /\ cbs[1].sync /\ what = "notification"
           THEN crashed' = TRUE /\ UNCHANGED <<replyReceived, replyErrs>>
           ELSE IF cbs # <<>> /\ LiveClosure(cbs[1])
           THEN /\ replyReceived' = [replyReceived EXCEPT ![cbs[1].by] = TRUE]
                /\ replyErrs' = [replyErrs EXCEPT ![cbs[1].by] = p.errs]
                /\ UNCHANGED crashed
           ELSE UNCHANGED <<replyReceived, replyErrs, crashed>>
        /\ lpc' = [lpc EXCEPT ![l] = "check_closed"]

\* A payload that does not decode is logged and dropped.
listenDrop(l, what) ==
    /\ lastLoop' = [NoLoop EXCEPT !.what = what]
    /\ held' = IF what = "bad_reply" THEN {k \in MsgIds : Registered(k)} ELSE {}
    /\ lpc' = [lpc EXCEPT ![l] = AfterDecodeError]
    /\ UNCHANGED <<Listener, replyReceived, replyErrs, crashed>>

\* The classification of rawXML by strings.Contains, the decode and the dispatch.
listenProcess(l) ==
    /\ Running
    /\ lpc[l] = "received"
    /\ NoSend
    /\ \E p \in Payloads :
           IF p.rm
           THEN IF NewRPCReplyOk(p)
                THEN listenDispatch(l, p, "reply", ReplyDispatchKey(p), ReplyEventType)
                ELSE listenDrop(l, "bad_reply")
           ELSE IF p.nm
           THEN IF NewNotificationOk(p)
                THEN listenDispatch(l, p, "notification", NotificationDispatchKey(p),
                                    NotificationEventType)
                ELSE listenDrop(l, "bad_notification")
           ELSE /\ lastLoop' = [NoLoop EXCEPT !.what = "unknown"]
                /\ held' = {}
                /\ lpc' = [lpc EXCEPT ![l] = "check_closed"]
                /\ UNCHANGED <<Listener, replyReceived, replyErrs, crashed>>
    /\ UNCHANGED <<constructed, helloErr, SessionID, Capabilities, IsClosed,
                   IsNotificationStreamCreated, version, tClosed, pc, op, opId,
                   inCreate, ret, closedAtCall, opsLeft>>

\* if session.IsClosed { break }: IsClosed is written by Close in another
\* goroutine with no synchronisation, so the read may still see false.
listenCheckClosed(l) ==
    /\ Running
    /\ lpc[l] = "check_closed"
    /\ \E seen \in {IsClosed, FALSE} :
          lpc' = [lpc EXCEPT ![l] = IF seen THEN "exited" ELSE "recv"]
    /\ Quiet
    /\ UNCHANGED <<sessVars, callerVars, held, opsLeft, crashed>>

listen(l) ==
    \/ listenReceive(l)
    \/ listenReceiveFailed(l)
    \/ listenProcess(l)
    \/ listenCheckClosed(l)

\* ------------------------------------------------------------ specifications
CallerStep(c) ==
    \/ ReceiveHelloAgain(c)
    \/ SendHello(c)
    \/ Close(c)
    \/ ExecRPC(c)
    \/ AsyncRPC(c)
    \/ SyncRPC(c)
    \/ CreateNotificationStream(c)
    \/ ListenerRemove(c)
    \/ CallerReturns(c)

Next ==
    \/ NewSession
    \/ \E c \in Callers : CallerStep(c)
    \/ \E l \in Loops : listen(l)

Spec == Init /\ [][Next]_vars

\* A goroutine that can take a step of the call it is in eventually takes it;
\* nothing obliges a caller to invoke another operation.
Continue(c) == pc[c] # "idle" /\ CallerStep(c)

FairSpec ==
    /\ Spec
    /\ \A c \in Callers : WF_vars(Continue(c))
    /\ \A l \in Loops : WF_vars(listen(l))

\* The handshake alone, over every capability list of the server Hello.
NewSessionAnyHello == NewSessionFrom(AllHellos)

NextHello ==
    \/ NewSessionAnyHello
    \/ \E c \in Callers :
          ReceiveHelloAgain(c) \/ SendHello(c) \/ Close(c) \/ CallerReturns(c)

HelloSpec == Init /\ [][NextHello]_vars


\* -------------------------------------------------------------------- claims

\* C1: a reply carrying message id K invokes only the consumer registered for
\* K: every consumer a reply dispatch invokes was built for the reply's id.
ReplyReachesOnlyItsConsumer ==
    lastLoop.what = "reply" =>
        \A i \in 1..Len(lastLoop.cbs) : lastLoop.cbs[i].for = lastLoop.id

\* C1 witness: a reply was delivered to its consumer while a request with
\* another id was outstanding.
ReplyDeliveredAmongOthers ==
    /\ lastLoop.what = "reply"
    /\ lastLoop.cbs # <<>>
    /\ \E k \in MsgIds : k # lastLoop.id /\ Registered(k)

\* C2: a Reply dispatch under K invokes the consumer registered under K once
\* and removes the registration, touching no other; with nothing registered
\* under K it invokes nothing and leaves the registry unchanged.
ReplyDispatchIsSingleShot ==
    [][lastLoop'.what = "reply" =>
          LET k == lastLoop'.id
          IN  IF Listener[k] # NoCb
              THEN /\ lastLoop'.cbs = <<Listener[k]>>
                   /\ Listener'[k] = NoCb
                   /\ \A j \in Keys \ {k} : Listener'[j] = Listener[j]
              ELSE /\ lastLoop'.cbs = <<>>
                   /\ Listener' = Listener]_vars

\* C2 witness: SyncRPC's closure for K has fired, the call has not yet
\* returned, and a second reply for K was dispatched and invoked nothing.
SecondReplyInvokedNothing ==
    \E c \in Callers :
        /\ pc[c] \in {"sync_wait", "sync_sleep"}
        /\ replyReceived[c]
        /\ lastLoop.what = "reply"
        /\ lastLoop.id = opId[c]
        /\ lastLoop.cbs = <<>>

\* C3: once SendHello has set the framing (and no other SendHello is between
\* its two SetVersion calls), the version is 1.1 exactly if some capability of
\* the peer's Hello contains "1.1".
HasToken11(cap) ==
    \E i \in 1..Len(cap) :
        i + 2 <= Len(cap) /\ cap[i] = "1" /\ cap[i + 1] = "." /\ cap[i + 2] = "1"

FramingSet ==
    /\ \E c \in Callers : op[c] = "SendHello" /\ pc[c] \in {"hello_listen", "done"}
    /\ \A c \in Callers : pc[c] # "hello_v11"

ConflictMutatesNothing ==
    [][\A c \in Callers :
          (IsNotificationStreamCreated /\ pc[c] = "idle"
              /\ op'[c] = "CreateNotificationStream") =>
          /\ pc'[c] = "done"
          /\ ret'[c] = "conflict"
          /\ Listener' = Listener
          /\ IsNotificationStreamCreated' = IsNotificationStreamCreated
          /\ wire' = NoWire
          /\ <<IsClosed, tClosed, version>>' = <<IsClosed, tClosed, version>>]_vars

\* C4 witness: a call has returned the conflict and the handler key still
\* holds the callback of the other, first, call.
ConflictReturned ==
    \E c \in Callers :
        /\ op[c] = "CreateNotificationStream"
        /\ pc[c] = "done"
        /\ ret[c] = "conflict"
        /\ IsNotificationStreamCreated
        /\ Listener[NetconfNotificationStreamHandler] # NoCb
        /\ Listener[NetconfNotificationStreamHandler].by # c

\* C5: a SyncRPC call blocked waiting for its reply when the session is closed
\* eventually returns.
BlockedSyncRPCReturnsAfterClose ==
    \A c \in Callers :
        (pc[c] \in {"sync_wait", "sync_sleep"} /\ IsClosed /\ tClosed)
            ~> (pc[c] \notin {"sync_wait", "sync_sleep"})

\* C6: once Close has set the closed flag and closed the transport, a running
\* receive loop eventually exits.
LoopExitsAfterClose ==
    \A l \in Loops :
        (lpc[l] \notin {"off", "exited"} /\ IsClosed /\ tClosed)
            ~> (lpc[l] = "exited")

\* C7: a payload with the reply marker that fails to decode is dropped: the
\* registry and the callers' replies are unchanged and the loop goes back to
\* Receive; and a later reply for a request outstanding since then is
\* delivered to that request's consumer.
MalformedReplyIsDropped ==
    [][/\ lastLoop'.what = "bad_reply" =>
            /\ Listener' = Listener
            /\ replyReceived' = replyReceived
            /\ ~crashed'
            /\ \A l \in Loops : lpc'[l] # lpc[l] => lpc'[l] = "recv"
       /\ (lastLoop'.what = "reply" /\ lastLoop'.id \in held) =>
            /\ Listener[lastLoop'.id] # NoCb
            /\ lastLoop'.cbs = <<Listener[lastLoop'.id]>>]_vars

\* C7 witness: after a dropped malformed reply, a reply was delivered to the
\* consumer of a request that was outstanding at the drop.
DeliveredAfterMalformedReply == lastLoop.what = "reply" /\ lastLoop.late

\* C8: when CreateNotificationStream returns a failure after it registered
\* the callback, no registration remains under the handler key and the
\* active flag is false.
FailedCreateRetractsRegistration ==
    [][\A c \in Callers :
          (pc[c] = "create_result" /\ pc'[c] = "done"
              /\ ret'[c] \notin {"nil", "panic"}) =>
          /\ Listener'[NetconfNotificationStreamHandler] = NoCb
          /\ ~IsNotificationStreamCreated']_vars

\* C9: when the SyncRPC inside CreateNotificationStream returns no reply and
\* an error, CreateNotificationStream returns an error and does not panic.
CreateReturnsErrorWhenSyncRPCFails ==
    [][\A c \in Callers :
          (pc[c] = "create_result" /\ ret[c] \in {"send", "encode"}) =>
          /\ pc'[c] = "done"
          /\ ret'[c] = "create_failed"
          /\ ~crashed']_vars

\* C10: no operation invoked after Close has closed the session calls
\* Transport.Send.
NoSendAfterClose == wire.what # "none" => ~wire.afterClose

\* C11: when the Receive or the decode of the server Hello fails inside
\* NewSession, the failure is surfaced: no session is returned to the caller
\* with the error dropped.
HelloFailureIsSurfaced == ~(constructed /\ helloErr)

\* C12: a SyncRPC call waiting for its reply eventually returns (a timeout if
\* no reply comes), unless the session is closed.
SyncRPCWaitIsBounded ==
    \A c \in Callers :
        (pc[c] \in {"sync_wait", "sync_sleep"})
            ~> (pc[c] \notin {"sync_wait", "sync_sleep"} \/ IsClosed)

ClosedFlagIsMonotonic == [][IsClosed => IsClosed']_vars

\* C15: at most one Transport.Receive call is in flight, at most one receive
\* loop runs, and once a loop runs no ExecRPC calls Receive.
ReceiveCallers == {c \in Callers : pc[c] = "exec_receive"}
ReceivesInFlight ==
    Cardinality({l \in Loops : lpc[l] = "recv"}) + Cardinality(ReceiveCallers)
ReceiveOnlyByTheSingleLoop ==
    /\ LoopsStarted <= 1
    /\ ReceivesInFlight <= 1
    /\ Handshaken => ReceiveCallers = {}

\* C16: every Hello is sent under version 1.0 framing.
HelloSentUnderVersion10 == wire.what = "hello" => wire.ver = "v1.0"

\* C17: AsyncRPC and SyncRPC reach their Send with the consumer registered
\* under the operation's id and nothing sent yet; the request is sent only
\* from there; until the Send only a dispatch under that id, a Remove or a
\* Register under the same id changes the registration; and a reply with that
\* id dispatched while the consumer is registered invokes it.
SendPcs == {"async_send", "sync_send"}
ConsumerAt(c, where) == Cb(c, opId[c], where = "sync_send")
RegisteredBeforeSend ==
    [][\A c \in Callers :
          /\ (pc'[c] \in SendPcs /\ pc[c] \notin SendPcs) =>
                /\ Listener'[opId'[c]] = Cb(c, opId'[c], pc'[c] = "sync_send")
                /\ wire' = NoWire
          /\ (wire'.what = "rpc" /\ wire'.by = c /\ op[c] # "ExecRPC") =>
                pc[c] \in SendPcs
          /\ (pc[c] \in SendPcs /\ pc'[c] \in SendPcs
                  /\ Listener'[opId[c]] # Listener[opId[c]]) =>
                \/ lastLoop'.key = opId[c]
                \/ \E d \in Callers \ {c} :
                      \/ pc[d] = "idle" /\ op'[d] = "Remove"
                      \/ pc[d] \notin SendPcs /\ pc'[d] \in SendPcs
                            /\ opId'[d] = opId[c]
          /\ (pc[c] \in SendPcs /\ lastLoop'.what = "reply"
                  /\ lastLoop'.id = opId[c]
                  /\ Listener[opId[c]] = ConsumerAt(c, pc[c])) =>
                lastLoop'.cbs = <<ConsumerAt(c, pc[c])>>]_vars

\* C17 witness: a reply was dispatched to the consumer of a call that had
\* registered it and not yet sent its request.
ReplyBeforeSendDelivered ==
    \E c \in Callers :
        /\ pc[c] \in SendPcs
        /\ lastLoop.what = "reply"
        /\ lastLoop.id = opId[c]
        /\ lastLoop.cbs = <<ConsumerAt(c, pc[c])>>

\* C18: when AsyncRPC or SyncRPC returns the error of a failed Send, no
\* registration remains under the operation's id.
FailedSendLeavesNoRegistration ==
    [][\A c \in Callers :
          (pc[c] \in SendPcs /\ op[c] \in {"AsyncRPC", "SyncRPC"}
              /\ pc'[c] = "done" /\ ret'[c] = "send") =>
          Listener'[opId[c]] = NoCb]_vars

\* C19: the subscription-active flag is set only while a registration exists
\* under the handler key.
ActiveFlagImpliesRegistration ==
    IsNotificationStreamCreated =>
        Listener[NetconfNotificationStreamHandler] # NoCb

\* C20: of the CreateNotificationStream calls in progress, at most one is
\* past the conflict check, registering its callback and sending.
CreatesPastTheCheck ==
    {c \in Callers :
        /\ op[c] = "CreateNotificationStream"
        /\ pc[c] \in {"create_register", "create_sync", "sync_send",
                       "sync_wait", "sync_sleep", "create_result"}}
AtMostOneCreateProceeds == Cardinality(CreatesPastTheCheck) <= 1

====
